---- MODULE Spec2Model ----
(***************************************************************************)
(* Model of core/calibration.py, class MicrophoneCalibrator: alignment of  *)
(* sweep recordings, analysis into a correction table, persistence of the  *)
(* table as JSON, and application of the table to new recordings.          *)
(*                                                                         *)
(* Audio samples are integers.  Cross-correlation is integer arithmetic    *)
(* and is computed exactly.  The FFT routines of numpy are library code:   *)
(* a spectrum bin is kept as the pair (zero-padded input, bin number) it   *)
(* is computed from, so that the lengths, paddings, rows and indices the   *)
(* calibrator chooses are all visible in the values it produces.           *)
(***************************************************************************)
EXTENDS Integers, Sequences, FiniteSets, TLC

VARIABLES
    ref_mic_index,      \* self.ref_mic_index
    calibration_data,   \* self.calibration_data (a dict: function on its keys)
    files,              \* the file system: path -> text (token sequence) or NoFile
    last,               \* the last call made: its arguments and its outcome
    saved,              \* history: the dict save_calibration last wrote to cal.json
    held                \* history: since construction, analyze_frequency_response
                        \* or a load_calibration of a non-empty document succeeded

vars == <<ref_mic_index, calibration_data, files, last, saved, held>>

(***************************************************************************)
(* Bounds of the model.                                                    *)
(***************************************************************************)
MaxLen == 2         \* longest signal: samples of a recording
MaxMics == 2        \* most microphones: signals of a list, rows of a table
MaxCh == 2          \* most channels of a multi-channel recording, entries of a map
MaxDelay == 2       \* largest delay of the delayed copy
MaxRate == 2        \* largest sample rate
MaxSigLen == 3      \* longest signal handed to align_signals

Samples == {-1, 0, 1}

Min(a, b) == IF a < b THEN a ELSE b

SeqsUpTo(S, n) == UNION {[1..m -> S] : m \in 1..n}

Signals == SeqsUpTo(Samples, MaxLen)

PlainSignals == SeqsUpTo({0, 1}, MaxLen)

Zeros(n) == [i \in 1..n |-> 0]

(***************************************************************************)
(* numpy arrays handed to align_signals: 1-D, or 2-D [sample][channel].    *)
(***************************************************************************)
Mono(s) == [ndim |-> 1, data |-> s]

Stereo(s) == [ndim |-> 2, data |-> [i \in 1..Len(s) |-> <<s[i], 0 - s[i]>>]]

AsArray(s, stereo) == IF stereo THEN Stereo(s) ELSE Mono(s)

\* a[:, 0] when a.ndim > 1, else a
FirstChannel(a) ==
    IF a.ndim > 1 THEN [i \in 1..Len(a.data) |-> a.data[i][1]] ELSE a.data

(***************************************************************************)
(* scipy.signal.correlate(in1, in2, mode='full') for real 1-D inputs:      *)
(* z[k] = sum_l in1[l] * in2[l - k + len(in2) - 1], k = 0 .. len1+len2-2.  *)
(* Sequences are 1-based here: entry j is z[j-1].                          *)
(***************************************************************************)
RECURSIVE CorrTerm(_, _, _, _)
CorrTerm(in1, in2, j, l) ==
    IF l = 0 THEN 0
    ELSE LET m == l - j + Len(in2)
         IN  (IF m \in 1..Len(in2) THEN in1[l] * in2[m] ELSE 0)
             + CorrTerm(in1, in2, j, l - 1)

Correlate(in1, in2) ==
    [j \in 1..(Len(in1) + Len(in2) - 1) |-> CorrTerm(in1, in2, j, Len(in1))]

\* np.argmax: the 0-based index of the first maximum
ArgMax(z) ==
    (CHOOSE i \in 1..Len(z) :
        /\ \A j \in 1..Len(z) : z[j] <= z[i]
        /\ \A j \in 1..(i - 1) : z[j] < z[i]) - 1

\* offset = np.argmax(correlation) - len(ref_signal)
AlignOffset(mic_signal, ref_signal) ==
    ArgMax(Correlate(mic_signal, ref_signal)) - Len(ref_signal)

\* mic_signal[offset:] if offset > 0, else np.pad(mic_signal, (abs(offset), 0))
ShiftSignal(mic_signal, offset) ==
    IF offset > 0
    THEN SubSeq(mic_signal, offset + 1, Len(mic_signal))
    ELSE Zeros(0 - offset) \o mic_signal

\* the trim without the pad that follows it
TrimOrPad_NoPad(aligned_signal, n) ==
    SubSeq(aligned_signal, 1, Min(Len(aligned_signal), n))

\* aligned[:n] followed by np.pad(aligned, (0, n - len(aligned)))
TrimOrPad(aligned_signal, n) ==
    LET trimmed == SubSeq(aligned_signal, 1, Min(Len(aligned_signal), n))
    IN  trimmed \o Zeros(n - Len(trimmed))

AlignOne(ref_signal, mic_signal) ==
    TrimOrPad(ShiftSignal(mic_signal, AlignOffset(mic_signal, ref_signal)),
              Len(ref_signal))

\* MicrophoneCalibrator.align_signals
align_signals(ref_array, mic_arrays) ==
    LET ref_signal == FirstChannel(ref_array)
    IN  [i \in 1..Len(mic_arrays) |->
            AlignOne(ref_signal, FirstChannel(mic_arrays[i]))]

\* the reference delayed by k samples: k zeros in front
Delayed(ref_signal, k) == Zeros(k) \o ref_signal

(***************************************************************************)
(* Floats.  np.abs(np.fft.rfft(x, n))[k] is kept as the magnitude term     *)
(* (x cut or zero-padded to n samples, k).  Its value is known exactly     *)
(* where the transform is a plain sum: at bin 0 it is |sum x|, at the      *)
(* Nyquist bin of an even length it is |sum (-1)^j x[j]|, and it is |a|    *)
(* at every bin of a signal whose only non-zero sample is a.  A float is   *)
(* as the quotient num / den of two magnitudes; the integer v is the       *)
(* magnitude at bin 0 of the one-sample signal <<v>>.                      *)
(***************************************************************************)
Abs(v) == IF v < 0 THEN 0 - v ELSE v

Mag(sig, bin) == [sig |-> sig, bin |-> bin]

IntMag(v) == Mag(<<v>>, 0)

RECURSIVE SignedSum(_, _, _)
SignedSum(sig, i, alternate) ==
    IF i = 0 THEN 0
    ELSE (IF alternate /\ i % 2 = 0 THEN 0 - sig[i] ELSE sig[i])
         + SignedSum(sig, i - 1, alternate)

\* the positions of the non-zero samples
NonZeroAt(sig) == {i \in 1..Len(sig) : sig[i] # 0}

\* a signal with at most one non-zero sample a has magnitude |a| at every bin
MagKnown(m) ==
    \/ Cardinality(NonZeroAt(m.sig)) <= 1
    \/ m.bin = 0
    \/ Len(m.sig) % 2 = 0 /\ m.bin * 2 = Len(m.sig)

MagValue(m) ==
    IF Cardinality(NonZeroAt(m.sig)) <= 1
    THEN Abs(SignedSum(m.sig, Len(m.sig), FALSE))
    ELSE Abs(SignedSum(m.sig, Len(m.sig), m.bin # 0))

MagIsZero(m) == MagKnown(m) /\ MagValue(m) = 0

MagIsNonZero(m) == MagKnown(m) /\ MagValue(m) # 0

\* numpy float division a / b: x/0 is inf, 0/0 is nan
Quotient(a, b) == [num |-> a, den |-> b]

IsNaN(f) == MagIsZero(f.num) /\ MagIsZero(f.den)

IsInf(f) == MagIsNonZero(f.num) /\ MagIsZero(f.den)

IsFinite(f) == MagIsNonZero(f.den)

NaNFloat == Quotient(IntMag(0), IntMag(0))

InfFloat == Quotient(IntMag(1), IntMag(0))

\* Python's == on floats: nan equals nothing, inf equals inf
FloatEq(f, g) ==
    /\ ~IsNaN(f) /\ ~IsNaN(g)
    /\ \/ IsInf(f) /\ IsInf(g)
       \/ f = g

\* < on two floats of known finite value
FloatLess(f, g) ==
    MagValue(f.num) * MagValue(g.den) < MagValue(g.num) * MagValue(f.den)

(***************************************************************************)
(* numpy.fft.  rfft(x, n) cuts or zero-pads x to n samples and has         *)
(* n//2 + 1 bins.                                                          *)
(***************************************************************************)
FitTo(x, n) == SubSeq(x, 1, Min(Len(x), n)) \o Zeros(n - Min(Len(x), n))

NumBins(n) == (n \div 2) + 1

\* np.abs(np.fft.rfft(x, n=n))
AbsRfft(x, n) == [k \in 1..NumBins(n) |-> Mag(FitTo(x, n), k - 1)]

\* np.fft.rfftfreq(n, 1 / sample_rate): bin k is k / (n * (1 / sample_rate))
RfftFreq(n, sample_rate) ==
    [k \in 1..NumBins(n) |-> Quotient(IntMag((k - 1) * sample_rate), IntMag(n))]

(***************************************************************************)
(* Python dicts: the items in insertion order.                             *)
(***************************************************************************)
EmptyDict == <<>>

Item(k, v) == [key |-> k, val |-> v]

Keys(d) == {d[i].key : i \in 1..Len(d)}

Get(d, k) == d[CHOOSE i \in 1..Len(d) : d[i].key = k].val

\* the truth value of a dict: "if not self.calibration_data"
Truthy(d) == Len(d) > 0

(***************************************************************************)
(* MicrophoneCalibrator.analyze_frequency_response.  The recordings are    *)
(* 1-D arrays; mic_recordings[self.ref_mic_index] raises IndexError when   *)
(* the index is past the end of the list.                                  *)
(***************************************************************************)
CalFactor(ref_fft, mic_fft) ==
    [k \in 1..Len(ref_fft) |-> Quotient(ref_fft[k], mic_fft[k])]

\* the factors of the microphones after the first only
CalibrationFactors_SkipFirst(mic_recordings, ref_response) ==
    LET ref_fft == AbsRfft(ref_response, Len(ref_response))
    IN  [i \in 1..(Len(mic_recordings) - 1) |->
            CalFactor(ref_fft, AbsRfft(mic_recordings[i + 1], Len(ref_response)))]

CalibrationFactors(mic_recordings, ref_response) ==
    LET ref_fft == AbsRfft(ref_response, Len(ref_response))
    IN  [i \in 1..Len(mic_recordings) |->
            CalFactor(ref_fft, AbsRfft(mic_recordings[i], Len(ref_response)))]

RefResponse(mic_recordings, ref_index) == mic_recordings[ref_index + 1]

AnalysisTable(mic_recordings, sample_rate, ref_index) ==
    LET ref_response == RefResponse(mic_recordings, ref_index)
    IN  <<Item("frequency_bins", RfftFreq(Len(ref_response), sample_rate)),
          Item("calibration_factors",
               CalibrationFactors(mic_recordings, ref_response))>>

analyze_frequency_response(data, index, mic_recordings, sample_rate) ==
    IF index >= Len(mic_recordings)
    THEN [status |-> "IndexError", data |-> data]
    ELSE [status |-> "ok",
          data |-> AnalysisTable(mic_recordings, sample_rate, index)]

(***************************************************************************)
(* json.dump.  A JSON text is the sequence of its tokens.  A finite float  *)
(* is written as its repr, which names the float exactly; nan is written   *)
(* NaN and inf is written Infinity.  A list is written by depth: 0 is a    *)
(* float, d + 1 a list of values of depth d.                               *)
(***************************************************************************)
Tok(t) == [t |-> t, s |-> "", f |-> NaNFloat]

StrTok(s) == [t |-> "str", s |-> s, f |-> NaNFloat]

NumTok(f) == [t |-> "num", s |-> "", f |-> f]

DumpFloat(f) ==
    IF IsNaN(f) THEN <<Tok("NaN")>>
    ELSE IF IsInf(f) THEN <<Tok("Infinity")>>
    ELSE <<NumTok(f)>>

\* the texts of parts, separated by commas
RECURSIVE Joined(_, _)
Joined(parts, i) ==
    IF i > Len(parts) THEN <<>>
    ELSE (IF i > 1 THEN <<Tok(",")>> ELSE <<>>) \o parts[i] \o Joined(parts, i + 1)

RECURSIVE DumpValue(_, _)
DumpValue(v, depth) ==
    IF depth = 0 THEN DumpFloat(v)
    ELSE <<Tok("[")>>
         \o Joined([i \in 1..Len(v) |-> DumpValue(v[i], depth - 1)], 1)
         \o <<Tok("]")>>

\* the depth of the value a calibration table holds under a key
DepthOf(key) == IF key = "frequency_bins" THEN 1 ELSE 2

DumpItem(item) ==
    <<StrTok(item.key), Tok(":")>> \o DumpValue(item.val, DepthOf(item.key))

JsonDump(d) ==
    <<Tok("{")>> \o Joined([i \in 1..Len(d) |-> DumpItem(d[i])], 1) \o <<Tok("}")>>

(***************************************************************************)
(* json.load: a recursive-descent parse of the tokens.  A parse returns    *)
(* [ok, val, next]: the value read and the position after it.  An object   *)
(* is read into a dict, an array into a list, NaN into a fresh nan.        *)
(***************************************************************************)
ParseFail == [ok |-> FALSE, val |-> <<>>, next |-> 0]

Parsed(v, n) == [ok |-> TRUE, val |-> v, next |-> n]

TokIs(toks, i, t) == i <= Len(toks) /\ toks[i].t = t

RECURSIVE ParseValue(_, _), ParseElements(_, _, _), ParseMembers(_, _, _)

ParseValue(toks, i) ==
    IF TokIs(toks, i, "num") THEN Parsed(toks[i].f, i + 1)
    ELSE IF TokIs(toks, i, "NaN") THEN Parsed(NaNFloat, i + 1)
    ELSE IF TokIs(toks, i, "Infinity") THEN Parsed(InfFloat, i + 1)
    ELSE IF TokIs(toks, i, "[")
         THEN IF TokIs(toks, i + 1, "]") THEN Parsed(<<>>, i + 2)
              ELSE ParseElements(toks, i + 1, <<>>)
    ELSE IF TokIs(toks, i, "{")
         THEN IF TokIs(toks, i + 1, "}") THEN Parsed(EmptyDict, i + 2)
              ELSE ParseMembers(toks, i + 1, EmptyDict)
    ELSE ParseFail

ParseElements(toks, i, acc) ==
    LET r == ParseValue(toks, i)
    IN  IF ~r.ok THEN ParseFail
        ELSE IF TokIs(toks, r.next, ",")
             THEN ParseElements(toks, r.next + 1, Append(acc, r.val))
        ELSE IF TokIs(toks, r.next, "]")
             THEN Parsed(Append(acc, r.val), r.next + 1)
        ELSE ParseFail

ParseMembers(toks, i, acc) ==
    IF ~(TokIs(toks, i, "str") /\ TokIs(toks, i + 1, ":")) THEN ParseFail
    ELSE LET r == ParseValue(toks, i + 2)
         IN  IF ~r.ok THEN ParseFail
             ELSE IF TokIs(toks, r.next, ",")
                  THEN ParseMembers(toks, r.next + 1,
                                    Append(acc, Item(toks[i].s, r.val)))
             ELSE IF TokIs(toks, r.next, "}")
                  THEN Parsed(Append(acc, Item(toks[i].s, r.val)), r.next + 1)
             ELSE ParseFail

\* json.load(f): one value, and nothing after it
JsonLoad(toks) ==
    LET r == ParseValue(toks, 1)
    IN  IF r.ok /\ r.next = Len(toks) + 1 THEN r ELSE ParseFail

(***************************************************************************)
(* Files.                                                                  *)
(***************************************************************************)
NoFile == [exists |-> FALSE, text |-> <<>>]

FileOf(text) == [exists |-> TRUE, text |-> text]

\* a calibration file cut short after the opening of its first list
CutShortText == <<Tok("{"), StrTok("frequency_bins"), Tok(":"), Tok("[")>>

\* save_calibration: open(filepath, 'w'), json.dump(self.calibration_data, f)
save_calibration(fs, data, filepath) ==
    [fs EXCEPT ![filepath] = FileOf(JsonDump(data))]

\* a load that keeps the table the calibrator already holds
load_calibration_KeepExisting(fs, data, filepath) ==
    IF fs[filepath].exists
    THEN LET r == JsonLoad(fs[filepath].text)
         IN  IF r.ok THEN [status |-> "ok", data |-> IF Truthy(data) THEN data ELSE r.val]
             ELSE [status |-> "JSONDecodeError", data |-> data]
    ELSE [status |-> "FileNotFoundError", data |-> data]

\* a load that clears the table before it opens the file
load_calibration_ClearFirst(fs, data, filepath) ==
    IF fs[filepath].exists
    THEN LET r == JsonLoad(fs[filepath].text)
         IN  IF r.ok THEN [status |-> "ok", data |-> r.val]
             ELSE [status |-> "JSONDecodeError", data |-> EmptyDict]
    ELSE [status |-> "FileNotFoundError", data |-> EmptyDict]

\* load_calibration: the new calibration_data, or the error raised
load_calibration(fs, data, filepath) ==
    IF fs[filepath].exists
    THEN LET r == JsonLoad(fs[filepath].text)
         IN  IF r.ok THEN [status |-> "ok", data |-> r.val]
             ELSE [status |-> "JSONDecodeError", data |-> data]
    ELSE [status |-> "FileNotFoundError", data |-> data]

(***************************************************************************)
(* The correction of one channel, shared by both apply entry points:       *)
(*   mic_fft = np.fft.rfft(mic_response, n=len(frequency_bins) * 2 - 1)    *)
(*   calibration_factor = np.resize(calibration_factor, mic_fft.shape)     *)
(*   calibrated_fft = mic_fft * calibration_factor                         *)
(*   np.fft.irfft(calibrated_fft, n=len(mic_response))                     *)
(* A complex bin is the term (padded input, bin); a product is the term    *)
(* (bin, factor); a sample of irfft(Y, n) is the term (the n//2 + 1 bins   *)
(* of Y that irfft reads, n, index).                                       *)
(***************************************************************************)
Rfft(x, n) == [k \in 1..NumBins(n) |-> Mag(FitTo(x, n), k - 1)]

ZeroFloat == Quotient(IntMag(0), IntMag(1))

\* np.resize(a, (n,)): a repeated or cut to n entries
NpResize(a, n) ==
    [k \in 1..n |-> IF Len(a) = 0 THEN ZeroFloat ELSE a[((k - 1) % Len(a)) + 1]]

Times(z, f) == [z |-> z, f |-> f]

ZeroBin == Times(Mag(<<0>>, 0), ZeroFloat)

Irfft(Y, n) ==
    LET spectrum == [k \in 1..NumBins(n) |-> IF k <= Len(Y) THEN Y[k] ELSE ZeroBin]
    IN  [j \in 1..n |-> [spectrum |-> spectrum, n |-> n, idx |-> j - 1]]

FftLength(frequency_bins) == Len(frequency_bins) * 2 - 1

CalibrateChannel(mic_response, factor_row, frequency_bins) ==
    LET mic_fft == Rfft(mic_response, FftLength(frequency_bins))
        calibration_factor == NpResize(factor_row, Len(mic_fft))
        calibrated_fft ==
            [k \in 1..Len(mic_fft) |-> Times(mic_fft[k], calibration_factor[k])]
    IN  Irfft(calibrated_fft, Len(mic_response))

Raised(error) == [status |-> error, out |-> <<>>]

Returned(out) == [status |-> "ok", out |-> out]

(***************************************************************************)
(* MicrophoneCalibrator.apply_calibration_folder: row i for list position  *)
(* i; calibration_factors[i] raises IndexError past the last row.          *)
(***************************************************************************)
apply_calibration_folder(data, mic_recordings) ==
    IF ~Truthy(data) THEN Raised("NotLoaded")
    ELSE LET frequency_bins == Get(data, "frequency_bins")
             factors == Get(data, "calibration_factors")
         IN  IF Len(mic_recordings) > Len(factors) THEN Raised("IndexError")
             ELSE Returned([i \in 1..Len(mic_recordings) |->
                      CalibrateChannel(mic_recordings[i], factors[i],
                                       frequency_bins)])

(***************************************************************************)
(* MicrophoneCalibrator.apply_calibration_file.                            *)
(* mic_recordings is [kind, ndim, data]: a Python list of 1-D arrays, or   *)
(* an ndarray; a 2-D ndarray is indexed [row][column].                     *)
(* mic_dict is [isdict, entries]: the values of the dict in key order; an  *)
(* entry is [present, halves]: whether it holds "mic_number", and twice    *)
(* the number it holds (the app reads the number as a float).              *)
(***************************************************************************)
NumRows(a) == Len(a.data)

NumCols(a) == Len(a.data[1])

\* mic_recordings[:, idx], idx counted from 0
Column(a, idx) == [j \in 1..NumRows(a) |-> a.data[j][idx + 1]]

\* the array of the channels left as it was built, one row per channel
Transposed_Not(channels) == channels

\* np.transpose(np.array(channels))
Transposed(channels) ==
    [j \in 1..Len(channels[1]) |-> [c \in 1..Len(channels) |-> channels[c][j]]]

\* int(x) of the float halves / 2: truncation towards zero
IntOf(halves) == IF halves >= 0 THEN halves \div 2 ELSE 0 - ((0 - halves) \div 2)

\* the microphone number used as the row index as it is
MicIndex_NoOffset(entry) == IntOf(entry.halves)

\* mic_number = int(mic_info["mic_number"]) - 1
MicIndex(entry) == IntOf(entry.halves) - 1

MissingNumber(entry) == ~entry.present

OutOfRange(entry, factors) ==
    MicIndex(entry) < 0 \/ MicIndex(entry) >= Len(factors)

\* the loop over the channels stops at the first entry it rejects
FileChannels(data, mic_recordings, entries) ==
    LET frequency_bins == Get(data, "frequency_bins")
        factors == Get(data, "calibration_factors")
        bad == {i \in 1..Len(entries) :
                    \/ MissingNumber(entries[i])
                    \/ OutOfRange(entries[i], factors)
                    \/ i > NumCols(mic_recordings)}
        first == CHOOSE i \in bad : \A j \in bad : i <= j
    IN  IF bad # {}
        THEN IF MissingNumber(entries[first]) THEN Raised("MissingField")
             ELSE IF OutOfRange(entries[first], factors) THEN Raised("OutOfRange")
             ELSE Raised("IndexError")    \* mic_recordings[:, idx] past the last column
        ELSE Returned(Transposed(
                 [i \in 1..Len(entries) |->
                     CalibrateChannel(Column(mic_recordings, i - 1),
                                      factors[MicIndex(entries[i]) + 1],
                                      frequency_bins)]))

\* the check made on shape[0]
ShapeMismatch_Rows(mic_recordings, num_channels) ==
    NumRows(mic_recordings) # num_channels

\* mic_recordings.shape[1] != num_channels
ShapeMismatch(mic_recordings, num_channels) ==
    NumCols(mic_recordings) # num_channels

\* the checks of the arguments made before the check of the table
apply_calibration_file_ArgumentsFirst(data, mic_recordings, mic_dict) ==
    IF ~mic_dict.isdict THEN Raised("InvalidFormat")
    ELSE IF mic_recordings.kind = "list" THEN Raised("Warning")
    ELSE IF ~Truthy(data) THEN Raised("NotLoaded")
    ELSE IF mic_recordings.ndim = 2
         THEN IF ShapeMismatch(mic_recordings, Len(mic_dict.entries))
              THEN Raised("ShapeMismatch")
              ELSE FileChannels(data, mic_recordings, mic_dict.entries)
    ELSE Raised("BadRecordings")

apply_calibration_file(data, mic_recordings, mic_dict) ==
    IF ~Truthy(data) THEN Raised("NotLoaded")
    ELSE IF ~mic_dict.isdict THEN Raised("InvalidFormat")
    ELSE IF mic_recordings.kind = "list" THEN Raised("Warning")
    ELSE IF mic_recordings.ndim = 2
         THEN IF ShapeMismatch(mic_recordings, Len(mic_dict.entries))
              THEN Raised("ShapeMismatch")
              ELSE FileChannels(data, mic_recordings, mic_dict.entries)
    ELSE Raised("BadRecordings")

(***************************************************************************)
(* State after MicrophoneCalibrator(ref_mic_index) is constructed.  The    *)
(* file system holds no calibration file yet; bad.json is a file that was  *)
(* cut short, missing.json is never written.                               *)
(***************************************************************************)
Paths == {"cal.json", "bad.json", "missing.json"}

RefIndices == {0, 1}    \* the default of __init__, and the value the app passes

InitFiles == [p \in Paths |-> IF p = "bad.json" THEN FileOf(CutShortText) ELSE NoFile]

(***************************************************************************)
(* align_signals is a pure function of its arguments: the initial states   *)
(* hold a pending call with its arguments, Align makes the call.           *)
(* delay >= 0 marks a call whose only signal is the reference delayed by   *)
(* that many samples.                                                      *)
(***************************************************************************)
AlignCall(ref, mics, stereo, k) ==
    [op |-> "align", pending |-> TRUE, delay |-> k,
     ref |-> AsArray(ref, stereo),
     sigs |-> [i \in 1..Len(mics) |-> AsArray(mics[i], stereo)],
     out |-> <<>>]

\* the signals of the calls of align_signals
AlignSignals == Signals \cup SeqsUpTo({0, 1}, MaxSigLen)

\* the lists of signals of the calls: any signal first, then signals of PlainSignals
SignalLists ==
    UNION {{[i \in 1..n |-> IF i = 1 THEN first ELSE rest[i]] :
                first \in AlignSignals,
                rest \in [2..n -> PlainSignals]} : n \in 1..MaxMics}

InitAlign ==
    /\ ref_mic_index = 0
    /\ calibration_data = EmptyDict
    /\ files = InitFiles
    /\ saved = EmptyDict
    /\ held = FALSE
    /\ \E ref \in AlignSignals, stereo \in BOOLEAN :
          \/ \E mics \in SignalLists : last = AlignCall(ref, mics, stereo, 0 - 1)
          \/ \E k \in 0..MaxDelay :
                last = AlignCall(ref, <<Delayed(ref, k)>>, stereo, k)

Align ==
    /\ last.op = "align" /\ last.pending
    /\ last' = [last EXCEPT !.pending = FALSE,
                            !.out = align_signals(last.ref, last.sigs)]
    /\ UNCHANGED <<ref_mic_index, calibration_data, files, saved, held>>

NextAlign == Align

SpecAlign == InitAlign /\ [][NextAlign]_vars

(***************************************************************************)
(* C1: when the only signal is the reference delayed by k >= 0 samples,    *)
(* the aligned output equals the reference sample for sample.              *)
(***************************************************************************)
C1_DelayedCopyRecovered ==
    (last.op = "align" /\ ~last.pending /\ last.delay >= 0)
        => last.out[1] = FirstChannel(last.ref)

(***************************************************************************)
(* C2: align_signals returns one output per input signal, in input order,  *)
(* each of the length of the reference.  An output in input order is a     *)
(* window of its own input: the input shifted, cut and zero-filled.        *)
(***************************************************************************)
SampleAt(s, i) == IF i \in 1..Len(s) THEN s[i] ELSE 0

IsWindowOf(out, s) ==
    \E shift \in (0 - (Len(s) + Len(out)))..(Len(s) + Len(out)) :
        \A j \in 1..Len(out) : out[j] = SampleAt(s, j + shift)

C2_AlignedLengths ==
    (last.op = "align" /\ ~last.pending) =>
        /\ Len(last.out) = Len(last.sigs)
        /\ \A i \in 1..Len(last.out) :
              /\ Len(last.out[i]) = Len(FirstChannel(last.ref))
              /\ IsWindowOf(last.out[i], FirstChannel(last.sigs[i]))

\* a call with two signals, one of them shorter than the reference, moved
\* back and padded at the end
C2_Witness ==
    /\ last.op = "align" /\ ~last.pending
    /\ Len(last.out) = 2
    /\ \E i \in 1..Len(last.sigs) :
          LET s == FirstChannel(last.sigs[i])
              ref == FirstChannel(last.ref)
          IN  /\ Len(s) < Len(ref)
              /\ AlignOffset(s, ref) < 0
              /\ Len(ShiftSignal(s, AlignOffset(s, ref))) < Len(ref)

\* a call with a signal longer than the reference, moved forward and trimmed
C2_WitnessLonger ==
    /\ last.op = "align" /\ ~last.pending
    /\ \E j \in 1..Len(last.sigs) :
          LET s == FirstChannel(last.sigs[j])
              ref == FirstChannel(last.ref)
          IN  /\ Len(s) > Len(ref)
              /\ AlignOffset(s, ref) > 0

(***************************************************************************)
(* Inputs of the calibrator.  A sweep set is the list of the recordings    *)
(* of m microphones, n samples each: microphone i recorded the impulse of  *)
(* amplitude i, or was silent.                                             *)
(***************************************************************************)
Impulse(a, n) == [i \in 1..n |-> IF i = 1 THEN a ELSE 0]

SweepKinds == {"distinct", "last_silent", "all_silent"}

Sweep(kind, m, n) ==
    [i \in 1..m |->
        IF kind = "all_silent" \/ (kind = "last_silent" /\ i = m)
        THEN Zeros(n) ELSE Impulse(i, n)]

\* a 2-D ndarray of the given shape; entry [j][c] names its row and column
NdArray2(rows, cols) ==
    [kind |-> "ndarray", ndim |-> 2,
     data |-> [j \in 1..rows |-> [c \in 1..cols |-> 10 * c + j]]]

NdArray1(n) == [kind |-> "ndarray", ndim |-> 1, data |-> <<[j \in 1..n |-> j]>>]

\* a Python list of 1-D arrays: element c is column c of the array above
PyList(rows, cols) ==
    [kind |-> "list", ndim |-> 0,
     data |-> [c \in 1..cols |-> [j \in 1..rows |-> 10 * c + j]]]

Entry(halves) == [present |-> TRUE, halves |-> halves]

NoNumber == [present |-> FALSE, halves |-> 0]

MicDict(entries) == [isdict |-> TRUE, entries |-> entries]

NotADict == [isdict |-> FALSE, entries |-> <<>>]

(***************************************************************************)
(* The steps of the calibrator.                                            *)
(***************************************************************************)
AnalyzeStep(mic_recordings, sample_rate) ==
    LET r == analyze_frequency_response(calibration_data, ref_mic_index,
                                        mic_recordings, sample_rate)
    IN  /\ calibration_data' = r.data
        /\ last' = [op |-> "analyze", pending |-> FALSE, status |-> r.status,
                    recordings |-> mic_recordings, sample_rate |-> sample_rate]
        /\ held' = (held \/ r.status = "ok")
        /\ UNCHANGED <<ref_mic_index, files, saved>>

\* the call that gives up the table once it has used it
ApplyFolderStep_DropsTable(mic_recordings) ==
    LET r == apply_calibration_folder(calibration_data, mic_recordings)
    IN  /\ last' = [op |-> "apply_folder", pending |-> FALSE, status |-> r.status,
                    recordings |-> mic_recordings, out |-> r.out]
        /\ calibration_data' = EmptyDict
        /\ UNCHANGED <<ref_mic_index, files, saved, held>>

ApplyFolderStep(mic_recordings) ==
    LET r == apply_calibration_folder(calibration_data, mic_recordings)
    IN  /\ last' = [op |-> "apply_folder", pending |-> FALSE, status |-> r.status,
                    recordings |-> mic_recordings, out |-> r.out]
        /\ UNCHANGED <<ref_mic_index, calibration_data, files, saved, held>>

ApplyFileStep(mic_recordings, mic_dict) ==
    LET r == apply_calibration_file(calibration_data, mic_recordings, mic_dict)
    IN  /\ last' = [op |-> "apply_file", pending |-> FALSE, status |-> r.status,
                    recordings |-> mic_recordings, mic_dict |-> mic_dict,
                    out |-> r.out]
        /\ UNCHANGED <<ref_mic_index, calibration_data, files, saved, held>>

(***************************************************************************)
(* Spec: the life of calibrators over one file system.                     *)
(***************************************************************************)
Init ==
    /\ ref_mic_index \in RefIndices
    /\ calibration_data = EmptyDict
    /\ files = InitFiles
    /\ saved = EmptyDict
    /\ held = FALSE
    /\ last = [op |-> "init", pending |-> FALSE, status |-> "ok"]

\* MicrophoneCalibrator(ref_mic_index=index): a new calibrator, the files stay
Construct ==
    /\ \E index \in RefIndices : ref_mic_index' = index
    /\ calibration_data' = EmptyDict
    /\ held' = FALSE
    /\ last' = [op |-> "init", pending |-> FALSE, status |-> "ok"]
    /\ UNCHANGED <<files, saved>>

Analyze ==
    \E kind \in SweepKinds, m \in 1..MaxMics, n \in 1..MaxLen :
        AnalyzeStep(Sweep(kind, m, n), 1)

Save ==
    /\ files' = save_calibration(files, calibration_data, "cal.json")
    /\ saved' = calibration_data
    /\ last' = [op |-> "save", pending |-> FALSE, status |-> "ok",
                path |-> "cal.json"]
    /\ UNCHANGED <<ref_mic_index, calibration_data, held>>

Load ==
    \E filepath \in Paths :
        LET r == load_calibration(files, calibration_data, filepath)
        IN  /\ calibration_data' = r.data
            /\ last' = [op |-> "load", pending |-> FALSE, status |-> r.status,
                        path |-> filepath, before |-> calibration_data]
            /\ held' = (held \/ (r.status = "ok" /\ Truthy(r.data)))
            /\ UNCHANGED <<ref_mic_index, files, saved>>

ApplyFolder ==
    \E cols \in {1, 2} : ApplyFolderStep(PyList(2, cols).data)

ApplyFile ==
    \E mic_recordings \in {NdArray2(2, 2), PyList(2, 2), NdArray1(2)},
       mic_dict \in {MicDict(<<Entry(2), Entry(4)>>), MicDict(<<Entry(2)>>),
                     MicDict(<<Entry(2), Entry(198)>>),
                     MicDict(<<NoNumber, Entry(2)>>), NotADict} :
        ApplyFileStep(mic_recordings, mic_dict)

Next == Construct \/ Analyze \/ Save \/ Load \/ ApplyFolder \/ ApplyFile

Spec == Init /\ [][Next]_vars

(***************************************************************************)
(* Tables compared as Python compares them: the same keys, lists of the    *)
(* same lengths, every float equal.                                        *)
(***************************************************************************)
FloatsEq(a, b) ==
    Len(a) = Len(b) /\ \A k \in 1..Len(a) : FloatEq(a[k], b[k])

RowsEq(a, b) ==
    Len(a) = Len(b) /\ \A i \in 1..Len(a) : FloatsEq(a[i], b[i])

IsTable(d) == Keys(d) = {"frequency_bins", "calibration_factors"} /\ Len(d) = 2

TableEq(d, e) ==
    /\ IsTable(d) /\ IsTable(e)
    /\ FloatsEq(Get(d, "frequency_bins"), Get(e, "frequency_bins"))
    /\ RowsEq(Get(d, "calibration_factors"), Get(e, "calibration_factors"))

\* a correction table all of whose factor values are finite
FiniteTable(d) ==
    /\ IsTable(d)
    /\ \A i \in 1..Len(Get(d, "calibration_factors")) :
          \A k \in 1..Len(Get(d, "calibration_factors")[i]) :
              IsFinite(Get(d, "calibration_factors")[i][k])

(***************************************************************************)
(* C3: a load_calibration of the file a save_calibration wrote leaves the  *)
(* calibrator, whatever it held before, with a table equal to the saved    *)
(* one, when the factor values of the saved table are finite: the same     *)
(* frequency_bins, as many factor rows, the same values in the same order. *)
(***************************************************************************)
C3_RoundTrip ==
    (last.op = "load" /\ last.status = "ok" /\ last.path = "cal.json"
        /\ FiniteTable(saved))
        => TableEq(calibration_data, saved)

\* a load into a calibrator that held another table, of two rows of two bins
C3_Witness ==
    /\ last.op = "load" /\ last.status = "ok" /\ last.path = "cal.json"
    /\ FiniteTable(saved)
    /\ Truthy(last.before) /\ last.before # saved
    /\ Len(Get(saved, "calibration_factors")) = 2
    /\ Len(Get(saved, "frequency_bins")) = 2

(***************************************************************************)
(* C7: an apply call made by a calibrator that has held no table since its *)
(* construction fails with the not-loaded error and returns nothing,       *)
(* whatever else is wrong with its arguments; an apply call made while a   *)
(* non-empty table is held does not raise the not-loaded error.            *)
(***************************************************************************)
C7_NotLoadedFirst ==
    (last.op \in {"apply_folder", "apply_file"}) =>
        /\ ~held => (last.status = "NotLoaded" /\ last.out = <<>>)
        /\ ~Truthy(calibration_data) => (last.status = "NotLoaded" /\ last.out = <<>>)
        /\ Truthy(calibration_data) => last.status # "NotLoaded"

\* not-loaded raised for a call whose map is no dict
C7_Witness ==
    /\ last.op = "apply_file" /\ ~held
    /\ ~last.mic_dict.isdict
    /\ last.status = "NotLoaded"

(***************************************************************************)
(* C8: load_calibration of a path that does not exist raises the not-found *)
(* error, load_calibration of a file of malformed JSON raises a parse      *)
(* error, and both leave the table the calibrator held unchanged.          *)
(***************************************************************************)
C8_FailedLoadKeepsTable ==
    (last.op = "load") =>
        /\ ~files[last.path].exists =>
              (last.status = "FileNotFoundError" /\ calibration_data = last.before)
        /\ (files[last.path].exists /\ files[last.path].text = CutShortText) =>
              (last.status = "JSONDecodeError" /\ calibration_data = last.before)

\* a parse error raised while the calibrator held a table
C8_Witness ==
    /\ last.op = "load" /\ last.status = "JSONDecodeError"
    /\ IsTable(last.before)

(***************************************************************************)
(* C9: every document save_calibration writes is an object with exactly    *)
(* the two keys frequency_bins and calibration_factors.                    *)
(***************************************************************************)
C9_SavedDocumentHasBothKeys ==
    (last.op = "save") =>
        LET r == JsonLoad(files[last.path].text)
        IN  r.ok /\ IsTable(r.val)

(***************************************************************************)
(* SpecAnalyze: analyze_frequency_response as a function of the list of    *)
(* recordings, the sample rate and the reference index.  The initial       *)
(* states hold a pending call, AnalyzeCall makes it.                       *)
(***************************************************************************)
RecordingLists == UNION {[1..k -> PlainSignals] : k \in 1..MaxMics}

InitAnalyze ==
    /\ ref_mic_index \in RefIndices
    /\ calibration_data = EmptyDict
    /\ files = InitFiles
    /\ saved = EmptyDict
    /\ held = FALSE
    /\ \E mic_recordings \in RecordingLists, sample_rate \in 1..MaxRate :
          last = [op |-> "analyze", pending |-> TRUE, status |-> "",
                  recordings |-> mic_recordings, sample_rate |-> sample_rate]

AnalyzeCall ==
    /\ last.op = "analyze" /\ last.pending
    /\ AnalyzeStep(last.recordings, last.sample_rate)

NextAnalyze == AnalyzeCall

SpecAnalyze == InitAnalyze /\ [][NextAnalyze]_vars

(***************************************************************************)
(* C10: after analyze_frequency_response on K >= 1 signals whose reference *)
(* has N >= 1 samples, the table holds K factor rows, row i computed from  *)
(* signal i against the reference (the row of the reference included),     *)
(* frequency_bins has floor(N/2) + 1 entries that start at 0 and increase  *)
(* strictly, and every factor row is as long as frequency_bins.            *)
(***************************************************************************)
C10_TableShape ==
    (last.op = "analyze" /\ ~last.pending /\ last.status = "ok") =>
        LET K == Len(last.recordings)
            ref == last.recordings[ref_mic_index + 1]
            N == Len(ref)
            bins == Get(calibration_data, "frequency_bins")
            factors == Get(calibration_data, "calibration_factors")
        IN  /\ IsTable(calibration_data)
            /\ Len(factors) = K
            /\ Len(bins) = (N \div 2) + 1
            /\ MagValue(bins[1].num) = 0
            /\ \A k \in 1..(Len(bins) - 1) : FloatLess(bins[k], bins[k + 1])
            /\ \A i \in 1..K :
                  /\ Len(factors[i]) = Len(bins)
                  /\ \A k \in 1..Len(factors[i]) :
                        /\ factors[i][k].num = Mag(ref, k - 1)
                        /\ factors[i][k].den = Mag(FitTo(last.recordings[i], N), k - 1)

\* two signals, the reference of two samples and the other one shorter
C10_Witness ==
    /\ last.op = "analyze" /\ ~last.pending /\ last.status = "ok"
    /\ Len(last.recordings) = 2
    /\ Len(last.recordings[ref_mic_index + 1]) = 2
    /\ \E i \in 1..2 : Len(last.recordings[i]) < 2
    /\ Len(Get(calibration_data, "frequency_bins")) = 2

(***************************************************************************)
(* SpecApply: the two apply entry points as functions of the table held    *)
(* and of their arguments.  The initial states hold a table (or none) and  *)
(* a pending call; ApplyFolderCall and ApplyFileCall make it.              *)
(***************************************************************************)
HeldTables ==
    {EmptyDict} \cup
    {AnalysisTable(Sweep("distinct", m, n), 1, 0) : m \in 1..MaxMics, n \in 1..MaxLen}

FileRecordings ==
    {NdArray2(rows, cols) : rows \in 1..MaxLen, cols \in 1..MaxCh}
        \cup {PyList(1, 1), NdArray1(1)}

\* microphone numbers from -1 to MaxMics + 1.5 in steps of a half, or none
EntryValues == {NoNumber} \cup {Entry(h) : h \in (0 - 2)..(2 * MaxMics + 3)}

MicDicts ==
    {NotADict} \cup
    {MicDict(entries) : entries \in UNION {[1..k -> EntryValues] : k \in 1..MaxCh}}

InitApply ==
    /\ ref_mic_index = 0
    /\ calibration_data \in HeldTables
    /\ files = InitFiles
    /\ saved = EmptyDict
    /\ held = Truthy(calibration_data)
    /\ \/ \E mic_recordings \in FileRecordings, mic_dict \in MicDicts :
             last = [op |-> "apply_file", pending |-> TRUE, status |-> "",
                     recordings |-> mic_recordings, mic_dict |-> mic_dict,
                     out |-> <<>>]
       \/ \E rows \in 1..MaxLen, cols \in 1..MaxCh :
             last = [op |-> "apply_folder", pending |-> TRUE, status |-> "",
                     recordings |-> PyList(rows, cols).data, out |-> <<>>]

ApplyFolderCall ==
    /\ last.op = "apply_folder" /\ last.pending
    /\ ApplyFolderStep(last.recordings)

ApplyFileCall ==
    /\ last.op = "apply_file" /\ last.pending
    /\ ApplyFileStep(last.recordings, last.mic_dict)

NextApply == ApplyFolderCall \/ ApplyFileCall

SpecApply == InitApply /\ [][NextApply]_vars

\* an apply_calibration_file call that got past the checks of the table, of
\* the map and of the kind of the recordings
FileCallOnArray ==
    /\ last.op = "apply_file" /\ ~last.pending
    /\ Truthy(calibration_data)
    /\ last.mic_dict.isdict
    /\ last.recordings.kind = "ndarray" /\ last.recordings.ndim = 2

Entries == last.mic_dict.entries

(***************************************************************************)
(* C4: apply_calibration_file on a channel whose map entry has             *)
(* mic_number = i, 1 <= i <= M, gives that channel the corrected samples   *)
(* that apply_calibration_folder gives the same samples at list position   *)
(* i - 1, wherever the channel is in the recording and in the map.         *)
(***************************************************************************)
C4_RowByMicNumber ==
    FileCallOnArray =>
        LET M == Len(Get(calibration_data, "calibration_factors"))
            Whole(c) == /\ Entries[c].present
                        /\ Entries[c].halves % 2 = 0
                        /\ Entries[c].halves >= 2 /\ Entries[c].halves <= 2 * M
        IN  /\ (/\ NumCols(last.recordings) = Len(Entries)
                /\ \A c \in 1..Len(Entries) : Whole(c)) => last.status = "ok"
            /\ last.status = "ok" =>
                  \A c \in 1..Len(Entries) :
                      Whole(c) =>
                          LET i == Entries[c].halves \div 2
                              samples == Column(last.recordings, c - 1)
                              folder == apply_calibration_folder(
                                            calibration_data, [p \in 1..i |-> samples])
                          IN  /\ folder.status = "ok"
                              /\ [j \in 1..Len(last.out) |-> last.out[j][c]]
                                     = folder.out[i]

\* two channels mapped crosswise: channel 1 is microphone 2, channel 2 is 1
C4_Witness ==
    /\ FileCallOnArray /\ last.status = "ok"
    /\ Len(Entries) = 2
    /\ Entries[1].halves = 4 /\ Entries[2].halves = 2
    /\ NumRows(last.recordings) = 2

C6_OutOfRangeRejected ==
    (/\ FileCallOnArray
     /\ NumCols(last.recordings) = Len(Entries)
     /\ \A c \in 1..Len(Entries) : Entries[c].present) =>
        LET M == Len(Get(calibration_data, "calibration_factors"))
            outside == \E c \in 1..Len(Entries) :
                          Entries[c].halves < 2 \/ Entries[c].halves > 2 * M
        IN  /\ outside <=> last.status = "OutOfRange"
            /\ last.status = "OutOfRange" => last.out = <<>>

\* the channel a corrected sample was computed from: the input of its FFT
SourceOf(sample) == sample.spectrum[1].z.sig

\* sample j of the correction, at the length of the recording, of mic_response
IsCorrectionOf(sample, j, mic_response, frequency_bins) ==
    /\ sample.n = Len(mic_response)
    /\ sample.idx = j - 1
    /\ SourceOf(sample) = FitTo(mic_response, FftLength(frequency_bins))

C11_WitnessFolder ==
    /\ last.op = "apply_folder" /\ ~last.pending /\ last.status = "ok"
    /\ Len(last.recordings) = 2
    /\ Len(last.recordings[1]) # FftLength(Get(calibration_data, "frequency_bins"))
    /\ Len(last.out) = 2

\* the length N the table was analysed at: frequency_bins[k] is k * rate / N
AnalysisLength(data) == MagValue(Get(data, "frequency_bins")[1].den)

\* the length of the FFT an apply call took of its first channel
AppliedFftLength == Len(SourceOf(last.out[1][1]))

(***************************************************************************)
(* C13: the FFT length an apply call computes from the table held,         *)
(* 2 * len(frequency_bins) - 1, is the length N the table was analysed     *)
(* at, for even N and for odd N.                                           *)
(***************************************************************************)
C13_FftLengthIsAnalysisLength ==
    (last.op \in {"apply_folder", "apply_file"} /\ last.status = "ok") =>
        /\ AppliedFftLength = FftLength(Get(calibration_data, "frequency_bins"))
        /\ AppliedFftLength = AnalysisLength(calibration_data)

(***************************************************************************)
(* SpecBuild: the build-calibration workflow of callibrateMicrophones.py    *)
(* and of the "Calibrate Microphones" page, one statement per action:      *)
(*   calibrator = MicrophoneCalibrator(ref_mic_index=1)                    *)
(*   aligned_signals = calibrator.align_signals(mic_recordings[0],         *)
(*                                              mic_recordings)            *)
(*   calibrator.analyze_frequency_response(aligned_signals, rate)          *)
(*   calibrator.save_calibration(path)                                     *)
(* last.pc is the statement to run next; an exception ends the workflow.   *)
(***************************************************************************)
WorkflowRefIndex == 1

InitBuild ==
    /\ ref_mic_index = WorkflowRefIndex
    /\ calibration_data = EmptyDict
    /\ files = InitFiles
    /\ saved = EmptyDict
    /\ held = FALSE
    /\ \E mic_recordings \in RecordingLists :
          last = [op |-> "build", pending |-> TRUE, status |-> "",
                  pc |-> "align", recordings |-> mic_recordings,
                  aligned |-> <<>>]

BuildAlign ==
    /\ last.op = "build" /\ last.pc = "align"
    /\ last' = [last EXCEPT
                  !.pc = "analyze",
                  !.aligned = align_signals(
                                  Mono(last.recordings[1]),
                                  [i \in 1..Len(last.recordings) |->
                                      Mono(last.recordings[i])])]
    /\ UNCHANGED <<ref_mic_index, calibration_data, files, saved, held>>

BuildAnalyze ==
    /\ last.op = "build" /\ last.pc = "analyze"
    /\ LET r == analyze_frequency_response(calibration_data, ref_mic_index,
                                           last.aligned, 1)
       IN  /\ calibration_data' = r.data
           /\ held' = (held \/ r.status = "ok")
           /\ last' = [last EXCEPT
                         !.pc = IF r.status = "ok" THEN "save" ELSE "raised",
                         !.status = r.status]
    /\ UNCHANGED <<ref_mic_index, files, saved>>

BuildSave ==
    /\ last.op = "build" /\ last.pc = "save"
    /\ files' = save_calibration(files, calibration_data, "cal.json")
    /\ saved' = calibration_data
    /\ last' = [last EXCEPT !.pc = "done", !.pending = FALSE]
    /\ UNCHANGED <<ref_mic_index, calibration_data, held>>

NextBuild == BuildAlign \/ BuildAnalyze \/ BuildSave

SpecBuild == InitBuild /\ [][NextBuild]_vars

(***************************************************************************)
(* C14: in the build workflow the analysis succeeds for every sweep set    *)
(* of at least one recording, and the numerator of every correction factor *)
(* is the spectrum of the aligned recording of microphone 1, the one the   *)
(* others were aligned to, so that row 1 of the table is the self-ratio    *)
(* row.                                                                    *)
(***************************************************************************)
C14_ReferenceIsMicrophoneOne ==
    (last.op = "build" /\ last.pc \in {"save", "done", "raised"}) =>
        /\ last.status = "ok"
        /\ LET factors == Get(calibration_data, "calibration_factors")
           IN  /\ \A i \in 1..Len(factors) : \A k \in 1..Len(factors[i]) :
                      factors[i][k].num.sig = last.aligned[1]
               /\ \A k \in 1..Len(factors[1]) : factors[1][k].num = factors[1][k].den

(***************************************************************************)
(* SpecSelf: the build workflow followed by the correction of the aligned  *)
(* sweep recordings with the table just built, for either reference index. *)
(***************************************************************************)
InitSelf ==
    /\ ref_mic_index \in RefIndices
    /\ calibration_data = EmptyDict
    /\ files = InitFiles
    /\ saved = EmptyDict
    /\ held = FALSE
    /\ \E mic_recordings \in RecordingLists :
          last = [op |-> "build", pending |-> TRUE, status |-> "",
                  pc |-> "align", recordings |-> mic_recordings,
                  aligned |-> <<>>]

\* calibrator.apply_calibration_folder(aligned_signals, rate)
SelfApply ==
    /\ last.op = "build" /\ last.pc = "done"
    /\ LET r == apply_calibration_folder(calibration_data, last.aligned)
       IN  last' = [op |-> "build", pending |-> FALSE, status |-> r.status,
                    pc |-> "applied", recordings |-> last.recordings,
                    aligned |-> last.aligned, out |-> r.out]
    /\ UNCHANGED <<ref_mic_index, calibration_data, files, saved, held>>

NextSelf == BuildAlign \/ BuildAnalyze \/ BuildSave \/ SelfApply

SpecSelf == InitSelf /\ [][NextSelf]_vars

(***************************************************************************)
(* What is known of one bin of the spectrum of a corrected signal.         *)
(* irfft(Y, n) reads only the real part of Y at bin 0 and, for even n, at  *)
(* bin n/2.  Bin k of the transform at length L of a signal whose only     *)
(* non-zero sample is a, at position p, is a * exp(-2 pi i p k / L): its   *)
(* magnitude is |a|, and it is real exactly when 2 p k is a multiple of L. *)
(***************************************************************************)
IsImpulse(sig) == Cardinality(NonZeroAt(sig)) = 1

ImpulseAt(sig) == (CHOOSE i \in NonZeroAt(sig) : TRUE) - 1

BinIsReal(m) ==
    \/ m.bin = 0
    \/ Len(m.sig) % 2 = 0 /\ m.bin * 2 = Len(m.sig)
    \/ IsImpulse(m.sig) /\ (2 * ImpulseAt(m.sig) * m.bin) % Len(m.sig) = 0

BinIsNotReal(m) ==
    IsImpulse(m.sig) /\ (2 * ImpulseAt(m.sig) * m.bin) % Len(m.sig) # 0

IrfftReadsRealPart(k, n) == k = 0 \/ (n % 2 = 0 /\ 2 * k = n)

SameMagnitude(a, b) ==
    \/ a = b
    \/ MagKnown(a) /\ MagKnown(b) /\ MagValue(a) = MagValue(b)

\* bin k of the corrected signal of n samples has the magnitude num of its factor
CorrectedToReference(Y, k, n) ==
    /\ SameMagnitude(Y.z, Y.f.den)
    /\ IrfftReadsRealPart(k, n) => BinIsReal(Y.z)

\* bin k of the corrected signal is known to have another magnitude
CorrectedElsewhere(Y, k, n) ==
    /\ MagIsNonZero(Y.f.num) /\ MagIsNonZero(Y.f.den) /\ MagKnown(Y.z)
    /\ \/ /\ MagValue(Y.z) # MagValue(Y.f.den)
          /\ IrfftReadsRealPart(k, n) => BinIsReal(Y.z)
       \/ /\ MagValue(Y.z) = MagValue(Y.f.den)
          /\ IrfftReadsRealPart(k, n) /\ BinIsNotReal(Y.z)

\* the bins of the corrected signals of the microphones other than the reference
SelfBins ==
    {<<i, k>> \in (1..Len(last.out)) \X (0..(Len(last.aligned[1]) \div 2)) :
        i # ref_mic_index + 1}

CorrectedBin(i, k) == last.out[i][1].spectrum[k + 1]

(***************************************************************************)
(* C12: after the aligned sweep recordings are corrected with the table    *)
(* built from them, no microphone other than the reference has a bin,      *)
(* among those where its own magnitude was not zero, whose corrected       *)
(* magnitude differs from the magnitude of the reference at that bin, for  *)
(* even and for odd analysis lengths N.                                    *)
(***************************************************************************)
C12_SelfCorrection ==
    (last.op = "build" /\ last.pc = "applied" /\ last.status = "ok") =>
        \A b \in SelfBins :
            LET Y == CorrectedBin(b[1], b[2])
                N == Len(last.aligned[1])
            IN  /\ Y.f.num = Mag(last.aligned[ref_mic_index + 1], b[2])
                /\ Y.f.den = Mag(last.aligned[b[1]], b[2])
                /\ ~CorrectedElsewhere(Y, b[2], N)

\* for odd N every such bin is corrected to the magnitude of the reference
C12_OddLengths ==
    (/\ last.op = "build" /\ last.pc = "applied" /\ last.status = "ok"
     /\ Len(last.aligned[1]) % 2 = 1) =>
        \A b \in SelfBins :
            LET Y == CorrectedBin(b[1], b[2])
            IN  /\ Y.f.num = Mag(last.aligned[ref_mic_index + 1], b[2])
                /\ CorrectedToReference(Y, b[2], Len(last.aligned[1]))

\* the result of making the last apply call again, on the table now held and
\* with the arguments as the call left them
AppliedAgain ==
    IF last.op = "apply_folder"
    THEN apply_calibration_folder(calibration_data, last.recordings)
    ELSE apply_calibration_file(calibration_data, last.recordings, last.mic_dict)

C15_WitnessRaised ==
    /\ last.op = "apply_file" /\ last.status = "OutOfRange"
    /\ IsTable(calibration_data)

====
